---- MODULE Spec2Model ----
(***************************************************************************)
(* Model of sun_astro_tools/emceefit.py: the MCMC driver modelfit_emcee    *)
(* as a state machine over its control points, and the prior / posterior   *)
(* functions (lnprior_flat, lnpost_line, lnpost_gauss2d,                    *)
(* lnpost2D_censored) as operators applied by evaluation actions.          *)
(*                                                                         *)
(* Floating-point values are records [k, v]: k is "fin" (v is the value),  *)
(* "ninf", "pinf" or "nan" (v is 0).  A likelihood or a quadrature is an   *)
(* external numerical computation: its result is carried symbolically      *)
(* (k = "post" for lnpr + lnlike, k = "corr" for a censoring-corrected     *)
(* value), both finite.                                                    *)
(***************************************************************************)
EXTENDS Integers, Sequences, FiniteSets, TLC

VARIABLES
    pc,            \* control point of modelfit_emcee
    nstep,         \* argument nstep
    ninfo,         \* argument ninfo
    nwalkers,      \* argument nwalkers
    verbose,       \* argument verbose
    skip_minimize, \* argument skip_minimize
    lnpguess,      \* outcome of lnpost(guess, **kwargs)
    count,         \* local count
    steps,         \* steps held by sampler.chain (per walker)
    minimized,     \* op.minimize has been invoked
    sampler,       \* EnsembleSampler has been constructed
    log,           \* sampler advances and printed summaries, in order
    err,           \* exception leaving the call, "" when none
    ret,           \* size of the returned flatchain, -1 before return
    call           \* last evaluation of a prior / posterior function

vars == <<pc, nstep, ninfo, nwalkers, verbose, skip_minimize, lnpguess,
          count, steps, minimized, sampler, log, err, ret, call>>

driverVars == <<pc, nstep, ninfo, nwalkers, verbose, skip_minimize, lnpguess,
                count, steps, minimized, sampler, log, err, ret>>

----------------------------------------------------------------------------
(* Bounds of the model *)

MaxNStep == 6
MaxNInfo == 3
MaxWalkers == 2
MaxPriorLen == 2
MaxParams == 5
MaxPoints == 2

\* parameter values, prior bounds and data coordinates are drawn from here
Vals == 0..2

\* The log keeps the first LogCap events; no run with ninfo >= 1 has more.
LogCap == 2 * MaxNStep + 4

----------------------------------------------------------------------------
(* Floating-point values *)

Fin(x) == [k |-> "fin", v |-> x]
NegInf == [k |-> "ninf", v |-> 0]
PosInf == [k |-> "pinf", v |-> 0]
NaN == [k |-> "nan", v |-> 0]
Raises == [k |-> "raise", v |-> 0]

FloatSamples == {Fin(0), Fin(-1), NegInf, PosInf, NaN}

\* a plausible slip: only negative infinity is rejected
isfinite_onlyneginf(x) == x.k # "ninf"

\* np.isfinite
isfinite(x) == x.k \in {"fin", "post", "corr"}

\* np.isinf
isinf(x) == x.k \in {"ninf", "pinf"}

----------------------------------------------------------------------------
(* modelfit_emcee *)

Record(e) == IF Len(log) < LogCap THEN Append(log, e) ELSE log

RunEv(p, n) == [ev |-> "run", pos |-> p, a |-> n, b |-> 0]
ChunkEv(r) == [ev |-> "chunk", pos |-> "", a |-> r[1], b |-> r[2]]
AllEv(n) == [ev |-> "all", pos |-> "", a |-> n, b |-> 0]

\* while (count + ninfo) <= nstep
LoopCond(c, ni, ns) == (c + ni) <= ns

\* a plausible slip: the counter is not advanced
NextCount_stuck(c, ni) == c

\* count += ninfo
NextCount(c, ni) == c + ni

\* a plausible slip: off by one in the remainder
PartialSteps_short(c, ns) == ns - c - 1

\* nstep - count
PartialSteps(c, ns) == ns - c

\* first argument of run_mcmc inside the loop
LoopPos(c) == IF c = 0 THEN "pos" ELSE "None"

\* a plausible slip: the range starts at count - ninfo
ChunkRange_off(c, ni) == <<c - ni, c>>

\* "Summary for the {} - {} steps:".format(count-ninfo+1, count)
ChunkRange(c, ni) == <<c - ni + 1, c>>

\* sampler.flatchain: all walkers' steps concatenated
FlatChainLen(nw, st) == nw * st

DriverInit ==
    /\ pc = "init"
    /\ nstep \in 0..MaxNStep
    /\ ninfo \in 0..MaxNInfo
    /\ nwalkers \in 1..MaxWalkers
    /\ verbose \in BOOLEAN
    /\ skip_minimize \in BOOLEAN
    /\ lnpguess \in FloatSamples \cup {Raises}
    /\ count = 0
    /\ steps = 0
    /\ minimized = FALSE
    /\ sampler = FALSE
    /\ log = <<>>
    /\ err = ""
    /\ ret = -1

Raise(e) ==
    /\ pc' = "raised"
    /\ err' = e

Validate ==
    /\ pc = "init"
    /\ \/ /\ lnpguess = Raises
          /\ Raise("Propagated")
       \/ /\ lnpguess # Raises
          /\ ~isfinite(lnpguess)
          /\ Raise("InvalidGuess")
       \/ /\ lnpguess # Raises
          /\ isfinite(lnpguess)
          /\ pc' = "optimize"
          /\ err' = err
    /\ UNCHANGED <<nstep, ninfo, nwalkers, verbose, skip_minimize, lnpguess,
                   count, steps, minimized, sampler, log, ret, call>>

Optimize ==
    /\ pc = "optimize"
    /\ ~skip_minimize
    /\ minimized' = TRUE
    /\ \/ /\ pc' = "sampler_init"
          /\ err' = err
       \/ Raise("Propagated")
    /\ UNCHANGED <<nstep, ninfo, nwalkers, verbose, skip_minimize, lnpguess,
                   count, steps, sampler, log, ret, call>>

SkipOptimize ==
    /\ pc = "optimize"
    /\ skip_minimize
    /\ pc' = "sampler_init"
    /\ UNCHANGED <<nstep, ninfo, nwalkers, verbose, skip_minimize, lnpguess,
                   count, steps, minimized, sampler, log, err, ret, call>>

SamplerInit ==
    /\ pc = "sampler_init"
    /\ sampler' = TRUE
    /\ count' = 0
    /\ pc' = "loop"
    /\ UNCHANGED <<nstep, ninfo, nwalkers, verbose, skip_minimize, lnpguess,
                   steps, minimized, log, err, ret, call>>

ChunkRun ==
    /\ pc = "loop"
    /\ LoopCond(count, ninfo, nstep)
    /\ log' = Record(RunEv(LoopPos(count), ninfo))
    /\ \/ /\ steps' = steps + ninfo
          /\ count' = NextCount(count, ninfo)
          /\ pc' = "report"
          /\ err' = err
       \/ /\ Raise("Propagated")
          /\ UNCHANGED <<steps, count>>
    /\ UNCHANGED <<nstep, ninfo, nwalkers, verbose, skip_minimize, lnpguess,
                   minimized, sampler, ret, call>>

ChunkReport ==
    /\ pc = "report"
    /\ log' = IF verbose THEN Record(ChunkEv(ChunkRange(count, ninfo))) ELSE log
    /\ pc' = "loop"
    /\ UNCHANGED <<nstep, ninfo, nwalkers, verbose, skip_minimize, lnpguess,
                   count, steps, minimized, sampler, err, ret, call>>

FinalPartial ==
    /\ pc = "loop"
    /\ ~LoopCond(count, ninfo, nstep)
    /\ \/ /\ count < nstep
          /\ log' = Record(RunEv("None", PartialSteps(count, nstep)))
          /\ \/ /\ steps' = steps + PartialSteps(count, nstep)
                /\ pc' = "summary"
                /\ err' = err
             \/ /\ Raise("Propagated")
                /\ steps' = steps
       \/ /\ ~(count < nstep)
          /\ pc' = "summary"
          /\ UNCHANGED <<log, steps, err>>
    /\ UNCHANGED <<nstep, ninfo, nwalkers, verbose, skip_minimize, lnpguess,
                   count, minimized, sampler, ret, call>>

Finish ==
    /\ pc = "summary"
    /\ log' = IF verbose THEN Record(AllEv(nstep)) ELSE log
    /\ ret' = FlatChainLen(nwalkers, steps)
    /\ pc' = "done"
    /\ UNCHANGED <<nstep, ninfo, nwalkers, verbose, skip_minimize, lnpguess,
                   count, steps, minimized, sampler, err, call>>

DriverNext ==
    \/ Validate
    \/ Optimize
    \/ SkipOptimize
    \/ SamplerInit
    \/ ChunkRun
    \/ ChunkReport
    \/ FinalPartial
    \/ Finish

----------------------------------------------------------------------------
(* lnprior_flat *)

Min(a, b) == IF a < b THEN a ELSE b

\* a plausible slip: the interval is taken closed
InOpen_closed(l, p, u) == l <= p /\ p <= u

\* lbound < param < ubound
InOpen(l, p, u) == l < p /\ p < u

\* the loop over zip(params, bounds), from pair i on
RECURSIVE lnprior_flat_from(_, _, _)
lnprior_flat_from(params, bounds, i) ==
    IF i > Min(Len(params), Len(bounds))
    THEN Fin(0)
    ELSE IF ~InOpen(bounds[i][1], params[i], bounds[i][2])
         THEN NegInf
         ELSE lnprior_flat_from(params, bounds, i + 1)

lnprior_flat(params, bounds) == lnprior_flat_from(params, bounds, 1)

----------------------------------------------------------------------------
(* lnpost_line, lnpost_gauss2d *)

Ret(x, lk) == [kind |-> "return", val |-> x, err |-> "", like |-> lk]
Err(e, lk) == [kind |-> "raise", val |-> NaN, err |-> e, like |-> lk]

\* lnprior(params, *priorargs): the default lnprior_flat with priorargs =
\* (bounds,), or a caller's prior, which may return any value
PriorValue(prior, params) ==
    IF prior.custom THEN prior.val ELSE lnprior_flat(params, prior.bounds)

\* the Gaussian likelihood: the einsum over cov fails on a malformed cov
LineLike(lnpr, cov) ==
    IF cov = "malformed"
    THEN Err("MalformedCov", TRUE)
    ELSE Ret([k |-> "post", v |-> lnpr.v], TRUE)

\* a plausible slip: the data check comes before the prior short-circuit
lnpost_line_datafirst(params, data, cov, intrinsic_scatter, prior) ==
    LET lnpr == PriorValue(prior, params)
    IN  IF data = "None" THEN Err("MissingData", FALSE)
        ELSE IF ~isfinite(lnpr) THEN Ret(NegInf, FALSE)
        ELSE IF cov = "None" THEN Err("TypeError", FALSE)
        ELSE IF intrinsic_scatter = "none"
             THEN IF cov = "zero" THEN Err("UnderdeterminedVariance", FALSE)
                  ELSE IF Len(params) # 2 THEN Err("UnpackError", FALSE)
                  ELSE LineLike(lnpr, cov)
        ELSE IF intrinsic_scatter \in {"vert", "perp"}
             THEN IF Len(params) # 3 THEN Err("UnpackError", FALSE)
                  ELSE LineLike(lnpr, cov)
        ELSE Err("InvalidScatterMode", FALSE)

lnpost_line(params, data, cov, intrinsic_scatter, prior) ==
    LET lnpr == PriorValue(prior, params)
    IN  IF ~isfinite(lnpr) THEN Ret(NegInf, FALSE)
        ELSE IF data = "None" THEN Err("MissingData", FALSE)
        \* cov = np.zeros(2, 2): the second positional argument is the dtype
        ELSE IF cov = "None" THEN Err("TypeError", FALSE)
        ELSE IF intrinsic_scatter = "none"
             THEN IF cov = "zero" THEN Err("UnderdeterminedVariance", FALSE)
                  ELSE IF Len(params) # 2 THEN Err("UnpackError", FALSE)
                  ELSE LineLike(lnpr, cov)
        ELSE IF intrinsic_scatter \in {"vert", "perp"}
             THEN IF Len(params) # 3 THEN Err("UnpackError", FALSE)
                  ELSE LineLike(lnpr, cov)
        ELSE Err("InvalidScatterMode", FALSE)

lnpost_gauss2d(params, data, cov, prior) ==
    LET lnpr == PriorValue(prior, params)
    IN  IF ~isfinite(lnpr) THEN Ret(NegInf, FALSE)
        ELSE IF data = "None" THEN Err("MissingData", FALSE)
        ELSE IF cov = "None" THEN Err("TypeError", FALSE)
        ELSE IF Len(params) # 5 THEN Err("UnpackError", FALSE)
        ELSE IF cov = "malformed" THEN Err("MalformedCov", TRUE)
        ELSE Ret([k |-> "post", v |-> lnpr.v], TRUE)

----------------------------------------------------------------------------
(* lnpost2D_censored *)

NoBounds ==
    [given |-> FALSE, xmin |-> 0, xmax |-> 0,
     ymin |-> [callable |-> FALSE, c |-> 0],
     ymax |-> [callable |-> FALSE, c |-> 0]]

\* ymin / ymax: a scalar c, or a callable, here x |-> x + c
YVal(yb, x) == IF yb.callable THEN x + yb.c ELSE yb.c

\* a plausible slip: the upper y bound is not checked
PointOutside_noymax(pt, b) ==
    \/ pt[1] < b.xmin
    \/ pt[1] > b.xmax
    \/ pt[2] < YVal(b.ymin, pt[1])

\* one row of the mask of lines 187-190
PointOutside(pt, b) ==
    \/ pt[1] < b.xmin
    \/ pt[1] > b.xmax
    \/ pt[2] < YVal(b.ymin, pt[1])
    \/ pt[2] > YVal(b.ymax, pt[1])

\* cov.size
CovSize(cov, npoint) == IF cov = "shared" THEN 4 ELSE 4 * npoint

CRet(x, n) == [kind |-> "return", val |-> x, err |-> "", integrals |-> n]
CErr(e) == [kind |-> "raise", val |-> NaN, err |-> e, integrals |-> 0]

\* lnpost minus the log-integrals: NaN stays NaN
Corrected(raw) == IF raw.k = "nan" THEN NaN ELSE [k |-> "corr", v |-> raw.v]

\* raw is what lnpost_func(params, data=data, cov=cov, **kwargs) does
lnpost2D_censored(lnpost_func, raw, data, cov, bounds) ==
    IF lnpost_func = "None" THEN CErr("MissingModelFunction")
    ELSE IF raw = Raises THEN CErr("Propagated")
    ELSE IF ~bounds.given \/ isinf(raw) THEN CRet(raw, 0)
    ELSE IF \E i \in 1..Len(data) : PointOutside(data[i], bounds)
         THEN CErr("DataOutsideCensoringBounds")
    ELSE IF cov = "None" THEN CErr("AttributeError")
    ELSE IF CovSize(cov, Len(data)) = 4
         THEN CRet(Corrected(raw), 1)
         ELSE CRet(Corrected(raw), Len(data))

----------------------------------------------------------------------------
(* Evaluations of the prior and posterior functions *)

SeqsOf(S, n) == UNION {[1..m -> S] : m \in 0..n}

Pairs == Vals \X Vals

ConstVecs(S, n) == {[i \in 1..m |-> x] : m \in 1..n, x \in S}

Priors(params) ==
    {[custom |-> FALSE, val |-> Fin(0), bounds |-> [i \in 1..Len(params) |-> b]] :
        b \in {<<-1, 3>>, <<0, 2>>, <<1, 1>>}}
    \cup {[custom |-> TRUE, val |-> x, bounds |-> <<>>] : x \in FloatSamples}

YMins == {[callable |-> FALSE, c |-> 1], [callable |-> TRUE, c |-> 0]}

YMaxs == {[callable |-> FALSE, c |-> 1], [callable |-> FALSE, c |-> 2],
          [callable |-> TRUE, c |-> 1]}

CensBounds ==
    {NoBounds} \cup
    {[given |-> TRUE, xmin |-> 1, xmax |-> b, ymin |-> lo, ymax |-> hi] :
        b \in 1..2, lo \in YMins, hi \in YMaxs}

DataSets == SeqsOf(Vals \X Vals, MaxPoints) \ {<<>>}

IdleDriver ==
    /\ pc = "idle"
    /\ nstep = 0
    /\ ninfo = 1
    /\ nwalkers = 1
    /\ verbose = FALSE
    /\ skip_minimize = FALSE
    /\ lnpguess = Fin(0)
    /\ count = 0
    /\ steps = 0
    /\ minimized = FALSE
    /\ sampler = FALSE
    /\ log = <<>>
    /\ err = ""
    /\ ret = -1

Pending(f, args) == [fn |-> f, in |-> args, done |-> FALSE, out |-> NaN]

PriorFlatCalls ==
    \E params \in SeqsOf(Vals, MaxPriorLen), bounds \in SeqsOf(Pairs, MaxPriorLen) :
        call = Pending("lnprior_flat", [params |-> params, bounds |-> bounds])

PostLineCalls ==
    \E params \in ConstVecs(Vals, MaxParams),
       data \in {"None", "given"},
       cov \in {"None", "zero", "nonzero", "malformed"},
       mode \in {"none", "vert", "perp", "bogus"} :
        \E prior \in Priors(params) :
            call = Pending("lnpost_line",
                           [params |-> params, data |-> data, cov |-> cov,
                            intrinsic_scatter |-> mode, prior |-> prior])

PostGauss2dCalls ==
    \E params \in ConstVecs(Vals, MaxParams),
       data \in {"None", "given"},
       cov \in {"None", "zero", "nonzero", "malformed"} :
        \E prior \in Priors(params) :
            call = Pending("lnpost_gauss2d",
                           [params |-> params, data |-> data, cov |-> cov,
                            prior |-> prior])

CensoredCalls ==
    \/ \E raw \in {Fin(0), NegInf, PosInf, NaN, Raises},
          data \in DataSets,
          cov \in {"None", "shared", "perpoint"},
          bounds \in CensBounds :
           call = Pending("lnpost2D_censored",
                          [lnpost_func |-> "given", raw |-> raw, data |-> data,
                           cov |-> cov, bounds |-> bounds])
    \/ \E bounds \in CensBounds :
           call = Pending("lnpost2D_censored",
                          [lnpost_func |-> "None", raw |-> Fin(0),
                           data |-> <<<<1, 1>>>>, cov |-> "shared",
                           bounds |-> bounds])

Returned(o) == [call EXCEPT !.done = TRUE, !.out = o]

EvalPriorFlat ==
    /\ call.fn = "lnprior_flat"
    /\ ~call.done
    /\ call' = Returned(lnprior_flat(call.in.params, call.in.bounds))
    /\ UNCHANGED driverVars

EvalPostLine ==
    /\ call.fn = "lnpost_line"
    /\ ~call.done
    /\ call' = Returned(lnpost_line(call.in.params, call.in.data, call.in.cov,
                                    call.in.intrinsic_scatter, call.in.prior))
    /\ UNCHANGED driverVars

EvalPostGauss2d ==
    /\ call.fn = "lnpost_gauss2d"
    /\ ~call.done
    /\ call' = Returned(lnpost_gauss2d(call.in.params, call.in.data, call.in.cov,
                                       call.in.prior))
    /\ UNCHANGED driverVars

EvalCensored ==
    /\ call.fn = "lnpost2D_censored"
    /\ ~call.done
    /\ call' = Returned(lnpost2D_censored(call.in.lnpost_func, call.in.raw,
                                          call.in.data, call.in.cov, call.in.bounds))
    /\ UNCHANGED driverVars

FnInit ==
    /\ IdleDriver
    /\ \/ PriorFlatCalls
       \/ PostLineCalls
       \/ PostGauss2dCalls
       \/ CensoredCalls

FnNext ==
    \/ EvalPriorFlat
    \/ EvalPostLine
    \/ EvalPostGauss2d
    \/ EvalCensored

FnSpec == FnInit /\ [][FnNext]_vars

----------------------------------------------------------------------------
(* Claims about the prior and posterior functions, checked under FnSpec *)

Evaluated(f) == call.fn = f /\ call.done

\* the point lies outside [xmin,xmax] x [ymin(x),ymax(x)]
LiesOutside(pt, b) ==
    ~ /\ b.xmin <= pt[1] /\ pt[1] <= b.xmax
      /\ YVal(b.ymin, pt[1]) <= pt[2] /\ pt[2] <= YVal(b.ymax, pt[1])

\* C3 (as stated): with a wrapped function and declared bounds, a data point
\* outside the bounds always ends the call in DataOutsideCensoringBounds,
\* whatever the raw log-posterior is; boundary points are accepted.
C3_OutsideAlwaysRaises ==
    (/\ Evaluated("lnpost2D_censored")
     /\ call.in.lnpost_func = "given"
     /\ call.in.raw # Raises
     /\ call.in.bounds.given) =>
        IF \E i \in 1..Len(call.in.data) : LiesOutside(call.in.data[i], call.in.bounds)
        THEN call.out.kind = "raise" /\ call.out.err = "DataOutsideCensoringBounds"
        ELSE call.out.err # "DataOutsideCensoringBounds"

\* C3 (amended): with a wrapped function and declared bounds, and a raw
\* log-posterior that is not +inf or -inf, a data point outside the bounds
\* ends the call in DataOutsideCensoringBounds and no value is returned;
\* points exactly on the boundary are accepted.
C3_OutsideRaisesUnlessInfinite ==
    (/\ Evaluated("lnpost2D_censored")
     /\ call.in.lnpost_func = "given"
     /\ call.in.raw # Raises
     /\ call.in.raw.k \notin {"ninf", "pinf"}
     /\ call.in.bounds.given) =>
        IF \E i \in 1..Len(call.in.data) : LiesOutside(call.in.data[i], call.in.bounds)
        THEN call.out.kind = "raise" /\ call.out.err = "DataOutsideCensoringBounds"
        ELSE call.out.err # "DataOutsideCensoringBounds"

C3_Witness ==
    /\ Evaluated("lnpost2D_censored")
    /\ call.in.lnpost_func = "given"
    /\ call.in.raw = Fin(0)
    /\ call.in.bounds.given
    /\ Len(call.in.data) = 2
    /\ call.in.data[1][1] = call.in.bounds.xmax
    /\ ~LiesOutside(call.in.data[1], call.in.bounds)
    /\ call.in.data[2][1] > call.in.bounds.xmax
    /\ call.out.kind = "raise"
    /\ call.out.err = "DataOutsideCensoringBounds"

\* C4: when bounds is None or the raw log-posterior is non-finite (-inf, +inf
\* or NaN) the adapter returns the raw value unchanged, integrates nothing
\* and raises nothing.
C4_RawReturnedWhenNonFinite ==
    (/\ Evaluated("lnpost2D_censored")
     /\ call.in.lnpost_func = "given"
     /\ call.in.raw # Raises
     /\ (~call.in.bounds.given \/ call.in.raw.k \in {"ninf", "pinf", "nan"})) =>
        /\ call.out.kind = "return"
        /\ call.out.val = call.in.raw
        /\ call.out.integrals = 0

\* C5: in lnpost_line and lnpost_gauss2d a prior of -inf makes the function
\* return -inf at once: the likelihood is not evaluated and nothing is
\* raised, whatever the data, covariance, scatter mode and parameter count.
C5_PriorShortCircuit ==
    (/\ Evaluated("lnpost_line") \/ Evaluated("lnpost_gauss2d")
     /\ PriorValue(call.in.prior, call.in.params) = NegInf) =>
        /\ call.out.kind = "return"
        /\ call.out.val = NegInf
        /\ ~call.out.like

C5_Witness ==
    /\ Evaluated("lnpost_line")
    /\ ~call.in.prior.custom
    /\ PriorValue(call.in.prior, call.in.params) = NegInf
    /\ call.in.data = "None"
    /\ call.in.cov = "malformed"
    /\ call.in.intrinsic_scatter = "bogus"
    /\ Len(call.in.params) = 5
    /\ call.out.kind = "return"
    /\ call.out.val = NegInf

\* C6: for params and bounds of the same length lnprior_flat returns 0 when
\* every parameter is strictly inside its interval and -inf when some
\* parameter is outside or on a bound, and nothing else.
C6_FlatPrior ==
    (/\ Evaluated("lnprior_flat")
     /\ Len(call.in.params) = Len(call.in.bounds)) =>
        LET p == call.in.params
            b == call.in.bounds
            inside(i) == b[i][1] < p[i] /\ p[i] < b[i][2]
        IN  /\ (\A i \in 1..Len(p) : inside(i)) => call.out = Fin(0)
            /\ (\E i \in 1..Len(p) : ~inside(i)) => call.out = NegInf
            /\ (\E i \in 1..Len(p) : p[i] = b[i][1] \/ p[i] = b[i][2]) =>
                  call.out = NegInf
            /\ call.out \in {Fin(0), NegInf}

C6_Witness ==
    /\ Evaluated("lnprior_flat")
    /\ Len(call.in.params) = 2
    /\ Len(call.in.bounds) = 2
    /\ call.in.bounds[1][1] < call.in.params[1]
    /\ call.in.params[1] < call.in.bounds[1][2]
    /\ call.in.bounds[2][1] < call.in.params[2]
    /\ call.in.params[2] = call.in.bounds[2][2]
    /\ call.out = NegInf

\* C10: lnpost_line with a finite prior, data, scatter mode 'vert' or 'perp'
\* and cov omitted takes the covariance as zero and returns a log-posterior
\* value without raising.
C10_OmittedCovReturnsValue ==
    (/\ Evaluated("lnpost_line")
     /\ PriorValue(call.in.prior, call.in.params).k = "fin"
     /\ call.in.data = "given"
     /\ call.in.intrinsic_scatter \in {"vert", "perp"}
     /\ Len(call.in.params) = 3
     /\ call.in.cov = "None") =>
        /\ call.out.kind = "return"
        /\ call.out.like

----------------------------------------------------------------------------
(* Observations on the log *)

IsRun(e) == e.ev = "run"
IsChunk(e) == e.ev = "chunk"
Runs == SelectSeq(log, IsRun)
Chunks == SelectSeq(log, IsChunk)

RECURSIVE SumA(_)
SumA(s) == IF s = <<>> THEN 0 ELSE Head(s).a + SumA(Tail(s))

Terminated == pc \in {"done", "raised"}

\* C1: for nstep >= 0 and ninfo >= 1, a call that returns has advanced the
\* sampler by exactly nstep steps: full chunks of ninfo, then at most one
\* partial chunk of nstep mod ninfo; the flat chain holds nwalkers * nstep
\* samples.
C1_TotalSteps ==
    (pc = "done" /\ ninfo >= 1) =>
        /\ Len(log) < LogCap
        /\ SumA(Runs) = nstep
        /\ steps = nstep
        /\ ret = nwalkers * nstep
        /\ Len(Runs) = (nstep \div ninfo) + (IF nstep % ninfo = 0 THEN 0 ELSE 1)
        /\ \A i \in 1..Len(Runs) :
              \/ Runs[i].a = ninfo /\ i <= nstep \div ninfo
              \/ /\ i = Len(Runs)
                 /\ i = (nstep \div ninfo) + 1
                 /\ Runs[i].a = nstep % ninfo

C1_Witness ==
    /\ pc = "done"
    /\ ninfo >= 2
    /\ nstep > ninfo
    /\ nstep % ninfo # 0
    /\ Len(Runs) >= 3
    /\ ret = nwalkers * nstep

\* C2: a non-finite log-posterior at the guess (-inf, +inf, NaN) ends the
\* call in InvalidGuess with the optimizer never invoked, no sampler
\* constructed and no step run; a finite value never raises InvalidGuess.
C2_InvalidGuess ==
    /\ (lnpguess.k \in {"ninf", "pinf", "nan"} /\ pc # "init") =>
          /\ pc = "raised"
          /\ err = "InvalidGuess"
          /\ ~minimized
          /\ ~sampler
          /\ steps = 0
          /\ log = <<>>
    /\ (lnpguess.k = "fin") => err # "InvalidGuess"

C2_Witness ==
    /\ lnpguess = NaN
    /\ pc = "raised"
    /\ err = "InvalidGuess"
    /\ ~minimized
    /\ ~sampler

\* C7 (as stated): with verbose on, every chunk run, the final partial chunk
\* included, is followed by a chunk summary, so the summarised ranges are
\* contiguous and cover steps 1..nstep; with verbose off nothing is reported.
C7_EveryChunkSummarised ==
    (pc = "done" /\ ninfo >= 1) =>
        IF verbose
        THEN /\ Len(Chunks) = Len(Runs)
             /\ \A s \in 1..nstep :
                   \E j \in 1..Len(Chunks) : Chunks[j].a <= s /\ s <= Chunks[j].b
        ELSE \A i \in 1..Len(log) : IsRun(log[i])

\* C7 (amended): with verbose on, every full chunk of ninfo steps is followed
\* by its summary before the next advance, the j-th summary being for steps
\* (j-1)*ninfo+1 .. j*ninfo, so on return the ranges are contiguous and cover
\* 1 .. ninfo*(nstep div ninfo); the final partial chunk gets no chunk summary
\* (only the whole-run summary follows it); with verbose off nothing is
\* reported.
C7_FullChunksSummarised ==
    (ninfo >= 1) =>
        /\ Len(log) < LogCap
        /\ ~verbose => \A i \in 1..Len(log) : IsRun(log[i])
        /\ verbose =>
            /\ \A j \in 1..Len(Chunks) :
                  /\ Chunks[j].a = (j - 1) * ninfo + 1
                  /\ Chunks[j].b = j * ninfo
            /\ \A i \in 1..Len(log) :
                  /\ (IsRun(log[i]) /\ log[i].a = ninfo /\ i < Len(log)) =>
                        IsChunk(log[i + 1])
                  /\ (IsRun(log[i]) /\ log[i].a < ninfo /\ i < Len(log)) =>
                        log[i + 1] = AllEv(nstep)
                  /\ (IsRun(log[i]) /\ i = Len(log)) =>
                        pc \in {"report", "summary", "raised"}
                  /\ IsChunk(log[i]) => (i > 1 /\ IsRun(log[i - 1]))
            /\ pc \in {"loop", "summary", "done"} =>
                  Len(Chunks) = count \div ninfo
            /\ pc = "done" =>
                  /\ Len(Chunks) = nstep \div ninfo
                  /\ log[Len(log)] = AllEv(nstep)

C7_Witness ==
    /\ pc = "done"
    /\ verbose
    /\ ninfo >= 2
    /\ nstep % ninfo # 0
    /\ Len(Chunks) >= 2
    /\ Len(Runs) = Len(Chunks) + 1

\* C8 (as stated): every call terminates, whatever nstep and ninfo are,
\* ninfo = 0 included.
C8_AlwaysTerminates == <>Terminated

\* C8 (amended): every call with ninfo >= 1 terminates: the chunk loop runs
\* at most nstep div ninfo times and the call returns or propagates an
\* exception.
C8_TerminatesForPositiveNinfo ==
    /\ (ninfo >= 1) => <>Terminated
    /\ []((ninfo >= 1) => (Len(Runs) <= (nstep \div ninfo) + 1 /\ count <= nstep))

C8_Witness ==
    /\ pc = "done"
    /\ ninfo >= 1
    /\ count = nstep
    /\ Len(Runs) >= 3

\* C9: for nstep >= 1 and ninfo >= 1 the first advance of the sampler is
\* given the walker positions built at sampler initialisation and every later
\* advance continues from the sampler's own state, also when nstep < ninfo.
C9_FirstAdvanceFromPos ==
    (ninfo >= 1 /\ nstep >= 1) =>
        \A i \in 1..Len(Runs) :
            Runs[i].pos = (IF i = 1 THEN "pos" ELSE "None")

Init ==
    /\ DriverInit
    /\ call = Pending("none", <<>>)

Next == DriverNext

Spec == Init /\ [][Next]_vars

\* The call is a sequential program: it keeps running while a step is enabled.
FairSpec == Spec /\ WF_vars(Next)

====
